---- MODULE Spec2Model ----
(***************************************************************************)
(* Attendance marking and active-course state machine of server.py.        *)
(*                                                                         *)
(* Strings are sequences of characters so that the two normalisations the  *)
(* code uses (Python str.strip/str.lower and SQLite TRIM/LOWER) are        *)
(* computed, not assumed equal.  Tables are sequences of rows in rowid     *)
(* order (AUTOINCREMENT ids only grow, so sequence order is id order).     *)
(***************************************************************************)
EXTENDS Naturals, Integers, Sequences, FiniteSets, TLC

VARIABLES
    attendance,     \* table attendance: rows [student_id, name, date, time, course]
    courses,        \* table courses: course_name per row, id = position
    active_course,  \* table active_course: rows [course_id, active_date]
    now,            \* wall clock, in ticks of UTC
    serverTz,       \* offset of the server's local time zone, in ticks
    resp,           \* the request last served and its response
    pc,             \* per worker: position inside mark_attendance
    frame,          \* per worker: the local variables of mark_attendance
    lastSet         \* history: the last course_changed event the admin caused

vars == <<attendance, courses, active_course, now, serverTz, resp, pc, frame, lastSet>>

---------------------------------------------------------------------------
(* Bounds *)
MaxNow == 1
MaxRows == 2

(* Clock granularity of the model: ticks per calendar day, and the offset  *)
(* of Africa/Lagos from UTC in ticks.                                      *)
DayLen == 2
LagosOffset == 1

---------------------------------------------------------------------------
(* Characters and the two families of string functions *)

SP == " "
TAB == "TAB"
BAR == "|"
UpperEacute == "U+00C9"
LowerEacute == "U+00E9"

\* Python str.lower(): Unicode aware.
PyLowerChar(c) ==
    CASE c = "S" -> "s"
      [] c = "C" -> "c"
      [] c = "M" -> "m"
      [] c = "G" -> "g"
      [] c = UpperEacute -> LowerEacute
      [] OTHER -> c

\* SQLite LOWER(): converts ASCII letters only.
SqlLowerChar(c) ==
    CASE c = "S" -> "s"
      [] c = "C" -> "c"
      [] c = "M" -> "m"
      [] c = "G" -> "g"
      [] OTHER -> c

PyLower(s) == [i \in 1..Len(s) |-> PyLowerChar(s[i])]
SqlLower(s) == [i \in 1..Len(s) |-> SqlLowerChar(s[i])]

\* Python str.strip() removes every kind of whitespace at both ends.
PyIsSpace(c) == c \in {SP, TAB}
\* SQLite TRIM(X) removes spaces (0x20) only.
SqlIsSpace(c) == c = SP

RECURSIVE PyLStrip(_)
PyLStrip(s) == IF s # <<>> /\ PyIsSpace(Head(s)) THEN PyLStrip(Tail(s)) ELSE s
RECURSIVE PyRStrip(_)
PyRStrip(s) ==
    IF s # <<>> /\ PyIsSpace(s[Len(s)]) THEN PyRStrip(SubSeq(s, 1, Len(s) - 1)) ELSE s
PyStrip(s) == PyRStrip(PyLStrip(s))

RECURSIVE SqlLTrim(_)
SqlLTrim(s) == IF s # <<>> /\ SqlIsSpace(Head(s)) THEN SqlLTrim(Tail(s)) ELSE s
RECURSIVE SqlRTrim(_)
SqlRTrim(s) ==
    IF s # <<>> /\ SqlIsSpace(s[Len(s)]) THEN SqlRTrim(SubSeq(s, 1, Len(s) - 1)) ELSE s
SqlTrim(s) == SqlRTrim(SqlLTrim(s))

\* norm_id(s): str(s).strip().lower()
norm_id(s) == PyLower(PyStrip(s))

\* '|' in payload
HasBar(s) == \E i \in 1..Len(s) : s[i] = BAR

\* payload.split('|', 1): the parts before and after the first '|'
FirstBar(s) == CHOOSE i \in 1..Len(s) : s[i] = BAR /\ \A j \in 1..(i - 1) : s[j] # BAR
SplitBar(s) == <<SubSeq(s, 1, FirstBar(s) - 1), SubSeq(s, FirstBar(s) + 1, Len(s))>>

\* The literals 'General' (inserted) and 'general' (compared) of mark_attendance
General == <<"G", "e", "n", "e", "r", "a", "l">>
general == <<"g", "e", "n", "e", "r", "a", "l">>

---------------------------------------------------------------------------
(* Clocks: datetime.now() is the server's local time, now_lagos() is the   *)
(* time in Africa/Lagos.                                                   *)

LocalClock == now + serverTz
LagosClock == now + LagosOffset
\* strftime('%Y-%m-%d') and strftime('%H:%M:%S')
DateOf(clock) == clock \div DayLen
TimeOf(clock) == clock % DayLen
today_local == DateOf(LocalClock)
now_lagos == LagosClock

---------------------------------------------------------------------------
(* Requests the environment can send *)

\* session of the caller: no session, a student's, an admin's
Roles == {"none", "student", "admin"}
Modes == {"course", "general"}
\* course names an admin may post: the whole system is checked with the first
\* set, the tracker alone with the second
CourseInputs == { <<"C">>, <<SP, "c", TAB>>, General, <<>> }
TrackerCourseInputs == { <<"C">>, <<SP, "c", TAB>>, <<"M">>, <<UpperEacute>>, <<>> }
SwitchCourseInputs == { <<"C">>, <<"M">>, <<>> }
\* scanned payloads: the whole system is checked with the first set, the
\* switching scenarios with the second, which has two spellings of one id
Payloads == { <<SP, "S", BAR, "a", SP>>, <<UpperEacute, BAR, "a">>, <<"s">> }
SwitchPayloads == Payloads \cup { <<"s", BAR, "a">> }
Workers == {1, 2}

NoResp ==
    [op |-> "none", mode |-> "", date |-> 0,
     status |-> 0, success |-> FALSE, message |-> "", messages |-> <<>>,
     inserted |-> <<>>, active |-> FALSE, course |-> <<>>, course_id |-> 0]

NoFrame ==
    [student_id |-> <<>>, name |-> <<>>, date_today |-> 0, time_now |-> 0,
     norm_scanned |-> <<>>, active_mode |-> "general", course_name |-> General,
     general_exists |-> FALSE, course_exists |-> FALSE,
     messages |-> <<>>, inserted_records |-> <<>>]

\* Variant: only the presence of a session tested
IsAdmin_AnySession(role) == role # "none"

\* 'user' not in session or session.get('role') != 'admin'
IsAdmin(role) == role = "admin"

---------------------------------------------------------------------------
(* Queries *)

\* SELECT id FROM courses WHERE LOWER(TRIM(course_name)) = ?
CourseIdsMatching(cs, key) ==
    {i \in 1..Len(cs) : SqlLower(SqlTrim(cs[i])) = key}

\* SELECT 1 FROM active_course WHERE course_id = ? AND active_date = ? LIMIT 1
ActiveRowExists(ac, course_id, date) ==
    \E i \in 1..Len(ac) : ac[i].course_id = course_id /\ ac[i].active_date = date

\* Variant: the WHERE clause left off the DELETE
DeleteActiveForDate_AllDates(ac, date) == <<>>

\* DELETE FROM active_course WHERE active_date = ?
DeleteActiveForDate(ac, date) ==
    LET Keep(r) == r.active_date # date IN SelectSeq(ac, Keep)

\* SELECT ... FROM active_course a JOIN courses c ON c.id = a.course_id
\* WHERE a.active_date = ? ORDER BY a.id DESC LIMIT 1   (0: no row)
ActiveLookup(ac, cs, date) ==
    LET hits == {i \in 1..Len(ac) :
                    ac[i].active_date = date /\ ac[i].course_id \in 1..Len(cs)}
    IN  IF hits = {} THEN 0 ELSE CHOOSE i \in hits : \A j \in hits : j <= i

\* SELECT 1 FROM attendance WHERE date = ? AND LOWER(TRIM(student_id)) = ?
\*   AND LOWER(TRIM(course)) = ? LIMIT 1
AttendanceExists(att, date, norm_scanned, course_key) ==
    \E i \in 1..Len(att) :
        /\ att[i].date = date
        /\ SqlLower(SqlTrim(att[i].student_id)) = norm_scanned
        /\ SqlLower(SqlTrim(att[i].course)) = course_key

---------------------------------------------------------------------------
(* set_course, get_course, clear_course *)

\* The courses table after the "ensure course exists" block, and the id used;
\* id 0 stands for the UNIQUE violation raised by the INSERT.
EnsureCourse(cs, course) ==
    LET hits == CourseIdsMatching(cs, PyStrip(PyLower(course)))
    IN  IF hits # {}
        THEN [courses |-> cs, course_id |-> CHOOSE i \in hits : \A j \in hits : i <= j]
        ELSE IF \E i \in 1..Len(cs) : cs[i] = course
             THEN [courses |-> cs, course_id |-> 0]
             ELSE [courses |-> Append(cs, course), course_id |-> Len(cs) + 1]

\* Variant: the existence test left out
EnsureActive_NoTest(ac, course_id, today) ==
    Append(ac, [course_id |-> course_id, active_date |-> today])

\* "ensure active_course row for today + course exists (idempotent)"
EnsureActive(ac, course_id, today) ==
    IF ActiveRowExists(ac, course_id, today)
    THEN ac
    ELSE Append(ac, [course_id |-> course_id, active_date |-> today])

SetCourse(role, course_in, mode) ==
    LET course == PyStrip(course_in)
        today == today_local
        req == [NoResp EXCEPT !.op = "set_course"]
        ens == EnsureCourse(courses, course)
    IN  /\ \A w \in Workers : pc[w] = "idle"
        /\ IF ~IsAdmin(role)
           THEN /\ resp' = [req EXCEPT !.status = 403, !.message = "Unauthorized"]
                /\ UNCHANGED <<courses, active_course>>
           ELSE IF mode = "course"
           THEN IF course = <<>>
                THEN /\ resp' = [req EXCEPT !.status = 400,
                                            !.message = "Course required for course mode"]
                     /\ UNCHANGED <<courses, active_course>>
                ELSE IF ens.course_id = 0
                THEN \* IntegrityError -> rollback -> 500
                     /\ resp' = [req EXCEPT !.status = 500, !.message = "Failed"]
                     /\ UNCHANGED <<courses, active_course>>
                ELSE /\ courses' = ens.courses
                     /\ active_course' = EnsureActive(active_course, ens.course_id, today)
                     /\ resp' = [req EXCEPT !.status = 200, !.course = course,
                                            !.mode = mode, !.date = today,
                                            !.message = "Course and mode updated"]
           ELSE /\ active_course' = DeleteActiveForDate(active_course, today)
                /\ UNCHANGED courses
                /\ resp' = [req EXCEPT !.status = 200, !.course = course,
                                       !.mode = mode, !.date = today,
                                       !.message = "Course and mode updated"]
        /\ UNCHANGED <<attendance, now, serverTz, pc, frame>>

\* The JSON body get_course builds from the fetched row
CourseView(ac, cs, date) ==
    LET r == ActiveLookup(ac, cs, date)
    IN  IF r = 0
        THEN [active |-> FALSE, course |-> <<>>, mode |-> "general", course_id |-> 0]
        ELSE [active |-> TRUE, course |-> cs[ac[r].course_id], mode |-> "course",
              course_id |-> ac[r].course_id]

GetCourse ==
    LET v == CourseView(active_course, courses, today_local)
    IN  /\ \A w \in Workers : pc[w] = "idle"
        /\ resp' = [NoResp EXCEPT !.op = "get_course", !.date = today_local,
                                  !.status = 200, !.active = v.active,
                                  !.course = v.course, !.mode = v.mode,
                                  !.course_id = v.course_id]
        /\ UNCHANGED <<attendance, courses, active_course, now, serverTz, pc, frame>>

ClearCourse(role) ==
    LET req == [NoResp EXCEPT !.op = "clear_course"]
    IN  /\ \A w \in Workers : pc[w] = "idle"
        /\ IF ~IsAdmin(role)
           THEN /\ resp' = [req EXCEPT !.status = 403, !.message = "Unauthorized"]
                /\ UNCHANGED active_course
           ELSE /\ active_course' = DeleteActiveForDate(active_course, today_local)
                /\ resp' = [req EXCEPT !.status = 200, !.mode = "general",
                                       !.date = today_local,
                                       !.message = "Session cleared (no active course)"]
        /\ UNCHANGED <<attendance, courses, now, serverTz, pc, frame>>

---------------------------------------------------------------------------
(* mark_attendance, statement by statement.  Each operator below is one    *)
(* block of the handler acting on its local variables f and on the         *)
(* attendance table.                                                       *)

\* lines 493-506: parse the payload, read the Lagos clock
PayloadOf(raw) == PyStrip(raw)
ParseFrame(raw, clock) ==
    LET parts == SplitBar(PayloadOf(raw))
        student_id == PyStrip(parts[1])
    IN  [NoFrame EXCEPT !.student_id = student_id,
                        !.name = PyStrip(parts[2]),
                        !.date_today = DateOf(clock),
                        !.time_now = TimeOf(clock),
                        !.norm_scanned = norm_id(student_id)]

\* lines 511-521: today's active course, if any
LookupActive(f, ac, cs) ==
    LET r == ActiveLookup(ac, cs, f.date_today)
    IN  IF r = 0
        THEN [f EXCEPT !.active_mode = "general", !.course_name = General]
        ELSE [f EXCEPT !.active_mode = "course", !.course_name = cs[ac[r].course_id]]

\* Variant: the General check done in general mode only
GeneralCheck_GeneralModeOnly(f, att) ==
    [f EXCEPT !.general_exists =
        \/ f.active_mode = "course"
        \/ AttendanceExists(att, f.date_today, f.norm_scanned, general)]

\* lines 527-532
GeneralCheck(f, att) ==
    [f EXCEPT !.general_exists =
        AttendanceExists(att, f.date_today, f.norm_scanned, general)]

RowOf(f, course) ==
    [student_id |-> f.student_id, name |-> f.name, date |-> f.date_today,
     time |-> f.time_now, course |-> course]

Msg(kind, scope, course) == [kind |-> kind, scope |-> scope, course |-> course]

\* lines 534-543: insert and commit, or report "already recorded"
GeneralWrite(f, att) ==
    IF ~f.general_exists
    THEN [att |-> Append(att, RowOf(f, General)),
          f |-> [f EXCEPT !.messages = Append(@, Msg("recorded", "general", General)),
                          !.inserted_records = Append(@, RowOf(f, General))]]
    ELSE [att |-> att,
          f |-> [f EXCEPT !.messages = Append(@, Msg("already", "general", General))]]

\* lines 546-552
CourseCheck(f, att) ==
    IF f.active_mode = "course"
    THEN [f EXCEPT !.course_exists =
            AttendanceExists(att, f.date_today, f.norm_scanned, PyLower(f.course_name))]
    ELSE f

\* lines 554-563
CourseWrite(f, att) ==
    IF f.active_mode # "course"
    THEN [att |-> att, f |-> f]
    ELSE IF ~f.course_exists
    THEN [att |-> Append(att, RowOf(f, f.course_name)),
          f |-> [f EXCEPT !.messages = Append(@, Msg("recorded", "course", f.course_name)),
                          !.inserted_records = Append(@, RowOf(f, f.course_name))]]
    ELSE [att |-> att,
          f |-> [f EXCEPT !.messages = Append(@, Msg("already", "course", f.course_name))]]

MarkReq(raw) == [NoResp EXCEPT !.op = "mark_attendance"]

\* Variant: the status code left off the return statement
InvalidResp_NoStatus(raw, emitOk) ==
    [MarkReq(raw) EXCEPT !.status = 200,
        !.message = IF emitOk THEN "Invalid QR content (expected 'id|name')"
                              ELSE "Invalid QR content"]

\* lines 495-501: the two 400 responses
InvalidResp(raw, emitOk) ==
    [MarkReq(raw) EXCEPT !.status = 400,
        !.message = IF emitOk THEN "Invalid QR content (expected 'id|name')"
                              ELSE "Invalid QR content"]

\* lines 581-585
SuccessResp(raw, f) ==
    [MarkReq(raw) EXCEPT !.status = 200, !.success = TRUE, !.date = f.date_today,
        !.mode = f.active_mode, !.course = f.course_name,
        !.messages = f.messages, !.inserted = f.inserted_records]

\* lines 587-590
FailureResp(raw, f) ==
    [MarkReq(raw) EXCEPT !.status = 500, !.date = f.date_today,
        !.mode = f.active_mode, !.course = f.course_name,
        !.message = "Failed to mark attendance"]

\* The whole handler, served without interleaving and without storage faults.
\* emitOk: whether socketio.emit returns or raises.
MarkAttendance(raw, emitOk) ==
    /\ \A w \in Workers : pc[w] = "idle"
    /\ IF ~HasBar(PayloadOf(raw))
       THEN /\ resp' = InvalidResp(raw, emitOk)
            /\ UNCHANGED attendance
       ELSE LET f1 == LookupActive(ParseFrame(raw, now_lagos), active_course, courses)
                g  == GeneralWrite(GeneralCheck(f1, attendance), attendance)
                c  == CourseWrite(CourseCheck(g.f, g.att), g.att)
            IN  /\ Len(c.att) <= MaxRows
                /\ attendance' = c.att
                /\ resp' = SuccessResp(raw, c.f)
    /\ UNCHANGED <<courses, active_course, now, serverTz, pc, frame>>

---------------------------------------------------------------------------
(* delete_record, delete_history *)

\* DELETE FROM attendance WHERE student_id=? AND date=? AND time=?
DeleteMatching(att, ID, Date, Time) ==
    LET Keep(r) == ~(r.student_id = ID /\ r.date = Date /\ r.time = Time)
    IN  SelectSeq(att, Keep)

\* delete_record has no session check; role is the caller's session all the same
DeleteRecord(role, ID, Date, Time) ==
    /\ \A w \in Workers : pc[w] = "idle"
    /\ attendance' = DeleteMatching(attendance, ID, Date, Time)
    /\ resp' = [NoResp EXCEPT !.op = "delete_record", !.status = 200, !.success = TRUE]
    /\ UNCHANGED <<courses, active_course, now, serverTz, pc, frame>>

DeleteHistory(role) ==
    LET req == [NoResp EXCEPT !.op = "delete_history"]
    IN  /\ \A w \in Workers : pc[w] = "idle"
        /\ IF ~IsAdmin(role)
           THEN /\ resp' = [req EXCEPT !.status = 403, !.message = "Unauthorized"]
                /\ UNCHANGED attendance
           ELSE /\ attendance' = <<>>
                /\ resp' = [req EXCEPT !.status = 200,
                                       !.message = "All attendance history deleted."]
        /\ UNCHANGED <<courses, active_course, now, serverTz, pc, frame>>

---------------------------------------------------------------------------
(* Time passes *)
Tick ==
    /\ now < MaxNow
    /\ now' = now + 1
    /\ UNCHANGED <<attendance, courses, active_course, serverTz, resp, pc, frame>>

---------------------------------------------------------------------------
(* The server after initialize_db() on an empty database file.  The server *)
(* runs either in Africa/Lagos or in UTC.                                  *)
ServerZones == {LagosOffset, 0}

\* The course_changed event of lines 386 and 437 as the handler builds it,
\* with the server date of the call.  repeated: it is a set_course naming the
\* course, mode and date of the event before it.  present: the students
\* (normalised ids) who had a General record for that date when it was sent.
NoEvent ==
    [course |-> <<>>, mode |-> "general", date |-> 0, repeated |-> FALSE, present |-> {}]
EventOf(r, last, att) ==
    IF r.op \in {"set_course", "clear_course"} /\ r.status = 200
    THEN LET course == IF r.mode = "course" THEN r.course ELSE <<>>
         IN  [course |-> course, mode |-> r.mode, date |-> r.date,
              repeated |-> /\ r.op = "set_course"
                           /\ course = last.course
                           /\ r.mode = last.mode
                           /\ r.date = last.date,
              present |-> {norm_id(att[i].student_id) : i \in
                             {k \in 1..Len(att) : /\ att[k].date = r.date
                                                  /\ att[k].course = General}}]
    ELSE last

Init ==
    /\ attendance = <<>>
    /\ courses = <<>>
    /\ active_course = <<>>
    /\ now = 0
    /\ serverTz \in ServerZones
    /\ resp = NoResp
    /\ pc = [w \in Workers |-> "idle"]
    /\ frame = [w \in Workers |-> NoFrame]
    /\ lastSet = NoEvent

\* Arguments of delete_record: the key of a stored row
DeleteKeys == {<<attendance[i].student_id, attendance[i].date, attendance[i].time>> :
                  i \in 1..Len(attendance)}

\* The response reaches the client; the server is free for the next request.
Deliver ==
    /\ resp # NoResp
    /\ \A w \in Workers : pc[w] = "idle"
    /\ resp' = NoResp
    /\ UNCHANGED <<attendance, courses, active_course, now, serverTz, pc, frame>>

\* One request, served from start to end
Request(Inputs, Scans) ==
    \/ \E role \in Roles, c \in Inputs, m \in Modes : SetCourse(role, c, m)
    \/ GetCourse
    \/ \E role \in Roles : ClearCourse(role)
    \/ \E raw \in Scans, emitOk \in BOOLEAN : MarkAttendance(raw, emitOk)
    \/ \E role \in Roles, k \in DeleteKeys : DeleteRecord(role, k[1], k[2], k[3])
    \/ \E role \in Roles : DeleteHistory(role)

\* Sequential service: a request starts after the previous response is out.
Next ==
    \/ resp = NoResp /\ Request(CourseInputs, Payloads) /\ UNCHANGED lastSet
    \/ resp = NoResp /\ Tick /\ UNCHANGED lastSet
    \/ Deliver /\ UNCHANGED lastSet

Spec == Init /\ [][Next]_vars

\* The same service, with the history of the admin's course changes kept and
\* two ordinary course names to switch between.
NextSwitch ==
    \/ resp = NoResp /\ Request(SwitchCourseInputs, SwitchPayloads) /\ lastSet' = EventOf(resp', lastSet, attendance)
    \/ resp = NoResp /\ Tick /\ UNCHANGED lastSet
    \/ Deliver /\ UNCHANGED lastSet

SpecSwitch == Init /\ [][NextSwitch]_vars

---------------------------------------------------------------------------
(* The tracker alone: set_course, get_course and clear_course in any       *)
(* order, each response staying visible until the next request.            *)
TrackerRequest ==
    \/ \E role \in Roles, c \in TrackerCourseInputs, m \in Modes : SetCourse(role, c, m)
    \/ GetCourse
    \/ \E role \in Roles : ClearCourse(role)

NextTracker ==
    \/ TrackerRequest /\ lastSet' = EventOf(resp', lastSet, attendance)
    \/ Tick /\ UNCHANGED lastSet

SpecTracker == Init /\ [][NextTracker]_vars

\* The tracker again, with course names that differ in case only, ASCII and not
RegistryCourseInputs ==
    { <<"C">>, <<SP, "c", TAB>>, <<UpperEacute>>, <<LowerEacute>>, <<>> }

RegistryRequest ==
    \/ \E role \in Roles, c \in RegistryCourseInputs, m \in Modes : SetCourse(role, c, m)
    \/ GetCourse
    \/ \E role \in Roles : ClearCourse(role)

NextRegistry ==
    \/ RegistryRequest /\ lastSet' = EventOf(resp', lastSet, attendance)
    \/ Tick /\ UNCHANGED lastSet

SpecRegistry == Init /\ [][NextRegistry]_vars

---------------------------------------------------------------------------
(* mark_attendance as the statements a worker executes one after another,  *)
(* so that two calls can interleave and a storage call can raise.          *)

StepPayloads == { <<"s", BAR, "a">>, <<SP, "S", BAR, "a", SP>>, <<"s">> }

Goto(w, label, f) ==
    /\ pc' = [pc EXCEPT ![w] = label]
    /\ frame' = [frame EXCEPT ![w] = f]

\* lines 492-506
Begin(w, raw, emitOk) ==
    /\ pc[w] = "idle"
    /\ IF ~HasBar(PayloadOf(raw))
       THEN /\ resp' = InvalidResp(raw, emitOk)
            /\ UNCHANGED <<pc, frame>>
       ELSE /\ Goto(w, "lookup", ParseFrame(raw, now_lagos))
            /\ UNCHANGED resp
    /\ UNCHANGED <<attendance, courses, active_course, now, serverTz>>

\* lines 512-521
StepLookup(w) ==
    /\ pc[w] = "lookup"
    /\ Goto(w, "general_check", LookupActive(frame[w], active_course, courses))
    /\ UNCHANGED <<attendance, courses, active_course, now, serverTz, resp>>

\* lines 527-532
StepGeneralCheck(w) ==
    /\ pc[w] = "general_check"
    /\ Goto(w, "general_write", GeneralCheck(frame[w], attendance))
    /\ UNCHANGED <<attendance, courses, active_course, now, serverTz, resp>>

\* lines 534-543 (INSERT and conn.commit())
StepGeneralWrite(w) ==
    LET g == GeneralWrite(frame[w], attendance)
    IN  /\ pc[w] = "general_write"
        /\ attendance' = g.att
        /\ Goto(w, "course_check", g.f)
        /\ UNCHANGED <<courses, active_course, now, serverTz, resp>>

\* lines 546-552
StepCourseCheck(w) ==
    /\ pc[w] = "course_check"
    /\ Goto(w, "course_write", CourseCheck(frame[w], attendance))
    /\ UNCHANGED <<attendance, courses, active_course, now, serverTz, resp>>

\* lines 554-563 (INSERT and conn.commit())
StepCourseWrite(w) ==
    LET c == CourseWrite(frame[w], attendance)
    IN  /\ pc[w] = "course_write"
        /\ attendance' = c.att
        /\ Goto(w, "respond", c.f)
        /\ UNCHANGED <<courses, active_course, now, serverTz, resp>>

\* lines 565-585
StepRespond(w) ==
    /\ pc[w] = "respond"
    /\ resp' = SuccessResp(<<>>, frame[w])
    /\ Goto(w, "idle", NoFrame)
    /\ UNCHANGED <<attendance, courses, active_course, now, serverTz>>

\* The worker's next statement is a storage call (a SELECT, or an INSERT with
\* its commit).
AtStorageCall(w) ==
    \/ pc[w] \in {"lookup", "general_check"}
    \/ pc[w] = "general_write" /\ ~frame[w].general_exists
    \/ pc[w] = "course_check" /\ frame[w].active_mode = "course"
    \/ pc[w] = "course_write" /\ frame[w].active_mode = "course"
                              /\ ~frame[w].course_exists

\* That storage call raises: the except clause of lines 587-590 answers 500
\* and the finally clause closes the connection, which discards the pending
\* statement only.
StepFault(w) ==
    /\ AtStorageCall(w)
    /\ resp' = FailureResp(<<>>, frame[w])
    /\ Goto(w, "idle", NoFrame)
    /\ UNCHANGED <<attendance, courses, active_course, now, serverTz>>

Steps(w) ==
    \/ StepLookup(w)
    \/ StepGeneralCheck(w)
    \/ StepGeneralWrite(w)
    \/ StepCourseCheck(w)
    \/ StepCourseWrite(w)
    \/ StepRespond(w)

\* Two scans in flight at once, no storage fault
NextRace ==
    \/ \E w \in Workers, raw \in StepPayloads, emitOk \in BOOLEAN :
          Begin(w, raw, emitOk) /\ Len(attendance) < MaxRows /\ UNCHANGED lastSet
    \/ \E w \in Workers : Steps(w) /\ UNCHANGED lastSet
    \/ Tick /\ UNCHANGED lastSet

SpecRace == Init /\ [][NextRace]_vars

\* One scan at a time, any storage call of which may raise
NextFault ==
    \/ /\ resp = NoResp
       /\ \E c \in CourseInputs, m \in Modes : SetCourse("admin", c, m)
       /\ UNCHANGED lastSet
    \/ /\ resp = NoResp
       /\ \E raw \in StepPayloads, emitOk \in BOOLEAN : Begin(1, raw, emitOk)
       /\ Len(attendance) < MaxRows
       /\ UNCHANGED lastSet
    \/ Steps(1) /\ UNCHANGED lastSet
    \/ StepFault(1) /\ UNCHANGED lastSet
    \/ Deliver /\ UNCHANGED lastSet
    \/ resp = NoResp /\ pc[1] = "idle" /\ Tick /\ UNCHANGED lastSet

SpecFault == Init /\ [][NextFault]_vars

---------------------------------------------------------------------------
(* Properties *)

Rows(att) == {att[i] : i \in 1..Len(att)}

\* The key of a ledger row: (date, lower-cased trimmed id, lower-cased trimmed course)
KeyOf(r) == <<r.date, norm_id(r.student_id), norm_id(r.course)>>
RowsWithKey(att, date, sid, course) ==
    {i \in 1..Len(att) : KeyOf(att[i]) = <<date, norm_id(sid), norm_id(course)>>}

\* student id of a well-formed payload
StudentOf(raw) == PyStrip(SplitBar(PyStrip(raw))[1])
\* the step is mark_attendance serving payload raw
Marks(raw) ==
    /\ resp'.op = "mark_attendance"
    /\ MarkAttendance(raw, TRUE) \/ MarkAttendance(raw, FALSE)
ValidPayloads == {raw \in SwitchPayloads : HasBar(raw)}

\* C1: under sequential calls the ledger never holds two records with the
\* same (date, normalised student id, normalised course) key.
C1_OneRecordPerKey ==
    \A i, j \in 1..Len(attendance) :
        i # j => KeyOf(attendance[i]) # KeyOf(attendance[j])

\* C2: when two mark_attendance calls of one student interleave, at most one
\* General record per (student, date) exists afterwards.
C2_OneGeneralUnderRace ==
    (\A w \in Workers : pc[w] = "idle") =>
        \A r \in Rows(attendance) :
            Cardinality(RowsWithKey(attendance, r.date, r.student_id, General)) <= 1

\* C3: a mark_attendance call that fails on a storage error leaves none of
\* its own inserts in the ledger.
C3_FailedCallLeavesNoRecord ==
    [][\A w \in Workers :
          StepFault(w) => \A i \in 1..Len(frame[w].inserted_records) :
                              frame[w].inserted_records[i] \notin Rows(attendance')]_vars

\* the student of raw already has today's records of the session in force
AlreadyScanned(raw) ==
    LET f == LookupActive(ParseFrame(raw, now_lagos), active_course, courses)
    IN  /\ RowsWithKey(attendance, f.date_today, f.student_id, General) # {}
        /\ f.active_mode = "course" =>
              RowsWithKey(attendance, f.date_today, f.student_id, f.course_name) # {}

\* C4: a scan of a student who already has today's records for the session
\* in force inserts nothing and answers "already recorded" only.
C4_SecondScanIdempotent ==
    [][\A raw \in ValidPayloads :
          (AlreadyScanned(raw) /\ Marks(raw)) =>
              /\ attendance' = attendance
              /\ resp'.inserted = <<>>
              /\ \A k \in 1..Len(resp'.messages) : resp'.messages[k].kind = "already"]_vars

\* the active course a scan at this instant is served with (<<>>: none)
ScanDate == DateOf(now_lagos)
ScanCourse ==
    LET r == ActiveLookup(active_course, courses, ScanDate)
    IN  IF r = 0 THEN <<>> ELSE courses[active_course[r].course_id]
ScanInCourseMode == ActiveLookup(active_course, courses, ScanDate) # 0

\* the student of raw has no record at all for today
FirstScan(raw) ==
    \A r \in Rows(attendance) :
        ~(r.date = ScanDate /\ norm_id(r.student_id) = norm_id(StudentOf(raw)))

TwoInserted(raw) ==
    /\ Len(resp'.inserted) = 2
    /\ attendance' = attendance \o resp'.inserted
    /\ resp'.inserted[1].course = General
    /\ resp'.inserted[2].course = ScanCourse
    /\ \A k \in 1..2 : /\ resp'.inserted[k].student_id = StudentOf(raw)
                       /\ resp'.inserted[k].date = ScanDate

\* C5: in course mode the first scan of a student on a date inserts exactly
\* two records, General and the active course, whatever the course name;
\* no call inserts more than two.
C5_FirstScanInsertsTwo ==
    [][\A raw \in ValidPayloads :
          Marks(raw) =>
              /\ Len(resp'.inserted) <= 2
              /\ Len(attendance') <= Len(attendance) + 2
              /\ (ScanInCourseMode /\ FirstScan(raw)) => TwoInserted(raw)]_vars

\* C6: once the admin has switched to course X today while a student already
\* had today's General record, a later scan of that student leaves the number
\* of the student's General records as it is and, if the student has no
\* record for X, adds exactly one record for X.
C6_SwitchKeepsGeneralAddsCourse ==
    [][\A raw \in ValidPayloads :
          (/\ Marks(raw)
           /\ lastSet.mode = "course"
           /\ lastSet.date = today_local
           /\ today_local = ScanDate
           /\ norm_id(StudentOf(raw)) \in lastSet.present
           /\ RowsWithKey(attendance, ScanDate, StudentOf(raw), General) # {})
          => /\ Cardinality(RowsWithKey(attendance', ScanDate, StudentOf(raw), General))
                = Cardinality(RowsWithKey(attendance, ScanDate, StudentOf(raw), General))
             /\ RowsWithKey(attendance, ScanDate, StudentOf(raw), lastSet.course) = {}
                => /\ Len(attendance') = Len(attendance) + 1
                   /\ Cardinality(RowsWithKey(attendance', ScanDate, StudentOf(raw),
                                              lastSet.course)) = 1]_vars

\* C7: a payload without '|' is answered 400 with success=false and leaves
\* the ledger, the course registry and the active-session rows as they are.
C7_NoSeparatorRejected ==
    [][\A raw \in SwitchPayloads, emitOk \in BOOLEAN :
          (~HasBar(raw) /\ resp'.op = "mark_attendance" /\ MarkAttendance(raw, emitOk)) =>
              /\ resp'.status = 400
              /\ resp'.success = FALSE
              /\ UNCHANGED <<attendance, courses, active_course>>]_vars

C7_Witness ==
    /\ resp.op = "mark_attendance"
    /\ resp.status = 400
    /\ attendance # <<>>
    /\ active_course # <<>>

\* C8: after every successful scan the ledger holds a General record for
\* (today, student); the first message is the General outcome, "recorded"
\* exactly when this call inserted that record; the course message, present
\* exactly in course mode, comes second.
C8_GeneralAlwaysChecked ==
    [][\A raw \in ValidPayloads :
          Marks(raw) =>
              LET m == resp'.messages
                  n == Len(attendance) + 1
                  insertedGeneral ==
                      /\ Len(attendance') >= n
                      /\ attendance'[n].student_id = StudentOf(raw)
                      /\ attendance'[n].date = ScanDate
                      /\ attendance'[n].course = General
                      /\ resp'.inserted # <<>>
                      /\ resp'.inserted[1] = attendance'[n]
              IN  /\ resp'.success /\ resp'.status = 200
                  /\ RowsWithKey(attendance', ScanDate, StudentOf(raw), General) # {}
                  /\ Len(m) = IF ScanInCourseMode THEN 2 ELSE 1
                  /\ m[1].scope = "general"
                  /\ m[1].kind \in {"recorded", "already"}
                  /\ (m[1].kind = "recorded") <=> insertedGeneral
                  /\ Len(m) = 2 => m[2].scope = "course" /\ m[2].course = ScanCourse]_vars

C8_Witness ==
    /\ resp.op = "mark_attendance"
    /\ resp.success
    /\ Len(resp.messages) = 2
    /\ resp.messages[1].kind = "already"
    /\ resp.messages[2].kind = "recorded"

\* what get_course answers at this instant
CourseNow == CourseView(active_course, courses, today_local)

\* C9: get_course reports the course of the most recent successful
\* set_course(mode=course) of today made since the last clear.
C9_LastWriterWins ==
    (lastSet.mode = "course" /\ lastSet.date = today_local) =>
        /\ CourseNow.active
        /\ norm_id(CourseNow.course) = norm_id(lastSet.course)

\* C10: there is at most one active_course row per (course id, date), and a
\* set_course(X, course) that repeats the previous successful one of the same
\* date leaves active_course and courses unchanged.
OneActiveRowPerCourseAndDate ==
    \A i, j \in 1..Len(active_course) :
        (i # j) => active_course[i] # active_course[j]
RepeatedSetCourse ==
    /\ lastSet'.repeated
    /\ resp'.op = "set_course"
    /\ resp'.status = 200
    /\ \E c \in TrackerCourseInputs : SetCourse("admin", c, "course")
C10_SetCourseIdempotent ==
    /\ []OneActiveRowPerCourseAndDate
    /\ [][RepeatedSetCourse => UNCHANGED <<active_course, courses>>]_vars

C10_Witness ==
    /\ resp.op = "set_course"
    /\ resp.status = 200
    /\ lastSet.repeated
    /\ lastSet.mode = "course"
    /\ Len(active_course) >= 2

\* the step is a successful clear_course or a successful set_course(mode=general)
ClearsSession ==
    \/ resp'.op = "clear_course" /\ resp'.status = 200 /\ ClearCourse("admin")
    \/ /\ resp'.op = "set_course" /\ resp'.status = 200 /\ resp'.mode = "general"
       /\ \E c \in CourseInputs : SetCourse("admin", c, "general")

\* the rows of active_course whose date is not d, in order
RowsOfOtherDates(ac, d) ==
    LET Other(r) == r.active_date # d IN SelectSeq(ac, Other)

\* C11: clear_course and set_course(mode=general) have the same effect: today's
\* active_course rows are all deleted, the rows of other dates, the courses
\* and the ledger stay, and get_course then answers active:false, mode general.
C11_ClearEqualsSetGeneral ==
    [][ClearsSession =>
          /\ \A i \in 1..Len(active_course') : active_course'[i].active_date # today_local
          /\ active_course' = RowsOfOtherDates(active_course, today_local)
          /\ UNCHANGED <<courses, attendance>>
          /\ ~CourseView(active_course', courses', today_local').active
          /\ CourseView(active_course', courses', today_local').mode = "general"]_vars

C11_Witness ==
    /\ resp.op \in {"clear_course", "set_course"}
    /\ resp.status = 200
    /\ resp.mode = "general"
    /\ Len(courses) >= 2
    /\ Len(active_course) = 1
    /\ active_course[1].active_date # today_local
    /\ attendance # <<>>

\* the step is an admin-only operation called by role
AdminOnlyCall(role) ==
    \/ /\ resp'.op = "set_course"
       /\ \E c \in CourseInputs, m \in Modes : SetCourse(role, c, m)
    \/ resp'.op = "clear_course" /\ ClearCourse(role)
    \/ resp'.op = "delete_history" /\ DeleteHistory(role)

\* the step is the admin's set_course in course mode with a name that is empty
\* once stripped
EmptyCourseCall ==
    /\ resp'.op = "set_course"
    /\ \E c \in CourseInputs : PyStrip(c) = <<>> /\ SetCourse("admin", c, "course")

\* C12: set_course, clear_course and delete_history called without an admin
\* session answer 403, and set_course in course mode with an empty course name
\* answers 400; in both cases the ledger, the courses and the active_course
\* rows stay as they are.
C12_RejectedCallsChangeNothing ==
    [][/\ \A role \in Roles \ {"admin"} :
              AdminOnlyCall(role) =>
                  /\ resp'.status = 403
                  /\ UNCHANGED <<attendance, courses, active_course>>
       /\ EmptyCourseCall =>
              /\ resp'.status = 400
              /\ UNCHANGED <<attendance, courses, active_course>>]_vars

C12_Witness ==
    /\ resp.op = "delete_history"
    /\ resp.status = 403
    /\ attendance # <<>>
    /\ active_course # <<>>

\* the step is a request made under the session role
CallBy(role) ==
    \/ /\ resp'.op = "set_course"
       /\ \E c \in CourseInputs, m \in Modes : SetCourse(role, c, m)
    \/ resp'.op = "clear_course" /\ ClearCourse(role)
    \/ resp'.op = "delete_history" /\ DeleteHistory(role)
    \/ /\ resp'.op = "delete_record"
       /\ \E k \in DeleteKeys : DeleteRecord(role, k[1], k[2], k[3])

\* the step is delete_record
DeletesRecord ==
    /\ resp'.op = "delete_record"
    /\ \E role \in Roles, k \in DeleteKeys : DeleteRecord(role, k[1], k[2], k[3])

\* att2 is att1 with some rows left out: no row is new, none is altered
RECURSIVE IsSubSeq(_, _)
IsSubSeq(att2, att1) ==
    IF att2 = <<>> THEN TRUE
    ELSE IF att1 = <<>> THEN FALSE
    ELSE IF Head(att2) = Head(att1) THEN IsSubSeq(Tail(att2), Tail(att1))
    ELSE IsSubSeq(att2, Tail(att1))

\* the stored records are kept, with their fields, and rows are only added
\* behind them
KeepsRecords ==
    /\ Len(attendance') >= Len(attendance)
    /\ SubSeq(attendance', 1, Len(attendance)) = attendance

\* C13: a call made without an admin session never removes a record from the
\* ledger, and no step changes a stored record: every step either keeps the
\* records and adds behind them, or only leaves records out.
C13_OnlyAdminRemoves ==
    [][/\ \A role \in Roles \ {"admin"} : CallBy(role) => KeepsRecords
       /\ KeepsRecords \/ IsSubSeq(attendance', attendance)]_vars

\* C14: delete_record removes at most one record from the ledger.
C14_DeleteRecordRemovesOne ==
    [][DeletesRecord =>
          /\ IsSubSeq(attendance', attendance)
          /\ Len(attendance') >= Len(attendance) - 1]_vars

\* no two courses have the same lower-cased, trimmed name
CoursesDeduplicated ==
    \A i, j \in 1..Len(courses) :
        i # j => norm_id(courses[i]) # norm_id(courses[j])

\* the ids of the courses that have the name c, case and outer whitespace aside
SameNameIds(c) == {i \in 1..Len(courses) : norm_id(courses[i]) = norm_id(c)}

\* the step is the admin's set_course(c, mode=course)
Activates(c) ==
    /\ resp'.op = "set_course"
    /\ SetCourse("admin", c, "course")

\* C15: no two rows of courses have the same lower-cased, trimmed name;
\* activating a course that exists under any casing succeeds, adds no course
\* and makes the existing id active today; the courses only ever grow.
C15_RegistryDeduplicated ==
    /\ []CoursesDeduplicated
    /\ [][/\ Len(courses') >= Len(courses)
          /\ SubSeq(courses', 1, Len(courses)) = courses
          /\ \A c \in RegistryCourseInputs :
                (Activates(c) /\ SameNameIds(c) # {}) =>
                    /\ resp'.status = 200
                    /\ courses' = courses
                    /\ \E i \in SameNameIds(c) :
                          ActiveRowExists(active_course', i, today_local)]_vars

\* C16: a mark_attendance call whose notification raises answers and stores
\* exactly what the same call does when the notification is delivered.
C16_EmitFailureChangesNothing ==
    [][\A raw \in SwitchPayloads :
          (resp'.op = "mark_attendance" /\ MarkAttendance(raw, FALSE)) =>
              MarkAttendance(raw, TRUE)]_vars

\* C17: at every instant the session a scan would be served with is the one
\* get_course reports: course mode with course C exactly when get_course
\* answers active:true with course C.
C17_ScanAgreesWithTracker ==
    /\ ScanInCourseMode = CourseNow.active
    /\ ScanInCourseMode => ScanCourse = CourseNow.course

====
